---- MODULE Spec2Model ----
(***************************************************************************)
(* Hyra amd64 machine-dependent bring-up (sys/arch/amd64/amd64/machdep.c). *)
(*                                                                         *)
(* Three parts of machdep.c are modelled, each with its own variables and  *)
(* its own specifications:                                                 *)
(*   - processor_init, run by every core.  Spec: any interleaving of the   *)
(*     cores' statements.  SpecSeq: one call at a time.                    *)
(*   - pre_init, run by every core.  SpecPre: one call at a time.          *)
(*   - processor_init_pcb, processor_free_pcb and processor_switch_to on   *)
(*     one core.  SpecPcb: any sequence of calls.  SpecRT: a switch from   *)
(*     one process to another and back.                                    *)
(***************************************************************************)
EXTENDS Integers, Sequences, FiniteSets, TLC

(***************************************************************************)
(* Bounds of the model.                                                    *)
(***************************************************************************)
\* Logical processors.
NumCores == 2

\* Processes with a process control block.
NumProcs == 2

\* Page frames the physical allocator manages (frames 1..NumFrames).
NumFrames == 2

\* The x87/XMM data registers hold a value in 0..MaxData.
MaxData == 1

\* Calls and instruction bursts in one run of the context operations.
MaxOps == 7

Cores == 1..NumCores

Procs == 1..NumProcs

NULL == 0

(***************************************************************************)
(* Bit arithmetic on machine words (non-negative integers).                *)
(***************************************************************************)
\* __BIT(n): the word with only bit n set.
BIT(n) == 2^n

\* __TEST(a, b): a & b is non-zero, for b a single bit BIT(n).
TEST(a, b) == (a \div b) % 2 = 1

RECURSIVE BitOr(_, _)
\* a | b
BitOr(a, b) ==
    IF a = 0 THEN b
    ELSE IF b = 0 THEN a
    ELSE (IF (a % 2 = 1) \/ (b % 2 = 1) THEN 1 ELSE 0)
         + 2 * BitOr(a \div 2, b \div 2)

RECURSIVE BitAndNot(_, _)
\* a & ~b
BitAndNot(a, b) ==
    IF a = 0 THEN 0
    ELSE (IF (a % 2 = 1) /\ (b % 2 = 0) THEN 1 ELSE 0)
         + 2 * BitAndNot(a \div 2, b \div 2)

INIT_FLAG_IOAPIC == 1

INIT_FLAG_ACPI == 2

\* The local APIC MMIO base the MADT reports, as a page frame number.
LAPIC_MMIO_BASE == 1043968

(***************************************************************************)
(* State of processor_init.                                                *)
(***************************************************************************)
VARIABLES
    pc,                 \* pc[c]: the statement of processor_init core c is at
    edx,                \* edx[c]: CPUID.1:EDX of core c
    cr0,                \* cr0[c]: control register 0 of core c (low bits)
    cr4,                \* cr4[c]: control register 4 of core c (low bits)
    reg_tmp,            \* static uint64_t reg_tmp, shared by all cores
    rax,                \* rax[c]: the register core c loads a static into
    init_flags,         \* static uint8_t init_flags, shared by all cores
    cur_cpu,            \* cur_cpu[c]: the local pointer to the cpu_info
    gs_base,            \* gs_base[c]: the GS base of core c
    cpu_lock,           \* cpu_lock[d]: holder of descriptor d's lock, or NULL
    cpu_lapic_base,     \* cpu_lapic_base[d]: lapic_base of descriptor d
    tss_loaded,         \* tss_loaded[c]: the task register of core c is loaded
    madt_calls,         \* acpi_parse_madt calls started
    madt_done,          \* acpi_parse_madt calls returned
    ioapic_calls,       \* ioapic_init calls started
    ioapic_done,        \* ioapic_init calls returned
    acpi_lapic_base,    \* what acpi_get_lapic_base() returns
    lapic_up,           \* lapic_up[c]: lapic_init has been called on core c
    intr_on,            \* intr_on[c]: RFLAGS.IF of core c
    try_spectre_mitigate, \* the mitigation hook is registered (non-NULL)
    trace               \* trace[c]: what processor_init did on core c, in order

ivars == <<pc, edx, cr0, cr4, reg_tmp, rax, init_flags, cur_cpu, gs_base, cpu_lock,
           cpu_lapic_base, tss_loaded, madt_calls, madt_done, ioapic_calls,
           ioapic_done, acpi_lapic_base, lapic_up, intr_on,
           try_spectre_mitigate, trace>>

(***************************************************************************)
(* State of pre_init.                                                      *)
(***************************************************************************)
VARIABLES
    is_bsp,             \* static bool is_bsp
    bpc,                \* bpc[c]: the statement of pre_init core c is at
    boot_calls,         \* the calls pre_init made, in order: <<core, callee>>
    idt,                \* the interrupt descriptor table, by vector
    idtr,               \* idtr[c]: core c has loaded the table (idt_load)
    gdtr                \* gdtr[c]: core c has loaded g_gdtr (gdt_load)

bvars == <<is_bsp, bpc, boot_calls, idt, idtr, gdtr>>

(***************************************************************************)
(* State of the process FPU context operations on one core.                *)
(***************************************************************************)
VARIABLES
    fpu_state,          \* fpu_state[p]: pcb->fpu_state of process p (virtual)
    mem,                \* mem[f]: the register image stored in frame f
    free_frames,        \* the frames the physical allocator holds as free
    fpu,                \* the live x87/SSE registers of the core
    curproc,            \* the process whose instructions the core executes
    last,               \* the most recent call and what it returned
    nops,               \* calls and instruction bursts so far
    rt                  \* the round trip under test (SpecRT)

pvars == <<fpu_state, mem, free_frames, fpu, curproc, last, nops, rt>>

vars == <<ivars, bvars, pvars>>

\* CPUID.1:EDX values: every combination of bit 25 (SSE) and bit 26 (SSE2),
\* with bit 0 (x87 FPU present) set as on every amd64 processor.
EdxVals == {1, 1 + BIT(25), 1 + BIT(26), 1 + BIT(25) + BIT(26)}

\* CR0 values on entry (low bits): PE|ET with MP, EM, NE set or clear.
Cr0Vals == {17, 19, 21, 23, 49}

\* CR4 values on entry (low bits): PAE with PGE, OSFXSR, OSXMMEXCPT set or
\* clear.
Cr4Vals == {32, 160, 544, 1056, 1696}

Goto(c, l) == pc' = [pc EXCEPT ![c] = l]

Emit(c, e) == trace' = [trace EXCEPT ![c] = Append(@, e)]

\* The descriptor dynalloc hands to core c: one fresh object per call.
DescOf(c) == c

Descs == {DescOf(c) : c \in Cores}

(***************************************************************************)
(* processor_init, one action per statement; c is the executing core.      *)
(***************************************************************************)
\* is_sse_supported(): CPUID.1:EDX bit 25 (SSE) and bit 26 (SSE2) both set.
is_sse_supported(e) == TEST(e, BIT(25)) /\ TEST(e, BIT(26))

\* cur_cpu = dynalloc(sizeof(struct cpu_info)); __assert(cur_cpu != NULL);
\* memset(cur_cpu, 0, ...).  dynalloc may fail; the assertion then halts.
L220_dynalloc(c) ==
    /\ pc[c] = "L220"
    /\ \E ok \in BOOLEAN :
         IF ok
         THEN /\ cur_cpu' = [cur_cpu EXCEPT ![c] = DescOf(c)]
              /\ cpu_lock' = [cpu_lock EXCEPT ![DescOf(c)] = NULL]
              /\ cpu_lapic_base' = [cpu_lapic_base EXCEPT ![DescOf(c)] = 0]
              /\ Emit(c, "dynalloc")
              /\ Goto(c, "L225")
         ELSE /\ UNCHANGED <<cur_cpu, cpu_lock, cpu_lapic_base>>
              /\ Emit(c, "assert")
              /\ Goto(c, "halted")
    /\ UNCHANGED <<rax, edx, cr0, cr4, reg_tmp, init_flags, gs_base, tss_loaded,
                   madt_calls, madt_done, ioapic_calls, ioapic_done,
                   acpi_lapic_base, lapic_up, intr_on, try_spectre_mitigate,
                   bvars, pvars>>

\* amd64_write_gs_base((uintptr_t)cur_cpu);
L225_write_gs_base(c) ==
    /\ pc[c] = "L225"
    /\ gs_base' = [gs_base EXCEPT ![c] = cur_cpu[c]]
    /\ Emit(c, "gs")
    /\ Goto(c, "L227")
    /\ UNCHANGED <<rax, edx, cr0, cr4, reg_tmp, init_flags, cur_cpu, cpu_lock,
                   cpu_lapic_base, tss_loaded, madt_calls, madt_done,
                   ioapic_calls, ioapic_done, acpi_lapic_base, lapic_up,
                   intr_on, try_spectre_mitigate, bvars, pvars>>

\* if (is_sse_supported()) { ... } else { panic(...); }
L227_if_sse(c) ==
    /\ pc[c] = "L227"
    /\ IF is_sse_supported(edx[c]) THEN Goto(c, "L229") ELSE Goto(c, "L239")
    /\ UNCHANGED <<rax, edx, cr0, cr4, reg_tmp, init_flags, cur_cpu, gs_base,
                   cpu_lock, cpu_lapic_base, tss_loaded, madt_calls,
                   madt_done, ioapic_calls, ioapic_done, acpi_lapic_base,
                   lapic_up, intr_on, try_spectre_mitigate, trace, bvars,
                   pvars>>

\* reg_tmp = amd64_read_cr0();
L229_read_cr0(c) ==
    /\ pc[c] = "L229"
    /\ reg_tmp' = cr0[c]
    /\ Goto(c, "L230")
    /\ UNCHANGED <<rax, edx, cr0, cr4, init_flags, cur_cpu, gs_base,
                   cpu_lock, cpu_lapic_base, tss_loaded, madt_calls,
                   madt_done, ioapic_calls, ioapic_done, acpi_lapic_base,
                   lapic_up, intr_on, try_spectre_mitigate, trace, bvars,
                   pvars>>

\* reg_tmp &= ~(__BIT(2));
\* The load of the read-modify-write: the static is read into a register.
L230_clear_em_load(c) ==
    /\ pc[c] = "L230"
    /\ rax' = [rax EXCEPT ![c] = reg_tmp]
    /\ Goto(c, "L230s")
    /\ UNCHANGED <<edx, cr0, cr4, reg_tmp, init_flags, cur_cpu, gs_base,
                   cpu_lock, cpu_lapic_base, tss_loaded, madt_calls,
                   madt_done, ioapic_calls, ioapic_done, acpi_lapic_base,
                   lapic_up, intr_on, try_spectre_mitigate, trace, bvars,
                   pvars>>

\* The store of the read-modify-write of line 230; the register is dead
\* afterwards.
L230_clear_em_store(c) ==
    /\ pc[c] = "L230s"
    /\ reg_tmp' = BitAndNot(rax[c], BIT(2))
    /\ rax' = [rax EXCEPT ![c] = 0]
    /\ Goto(c, "L231")
    /\ UNCHANGED <<edx, cr0, cr4, init_flags, cur_cpu, gs_base, cpu_lock,
                   cpu_lapic_base, tss_loaded, madt_calls, madt_done,
                   ioapic_calls, ioapic_done, acpi_lapic_base, lapic_up,
                   intr_on, try_spectre_mitigate, trace, bvars, pvars>>

\* reg_tmp |= __BIT(1);
\* The load of the read-modify-write: the static is read into a register.
L231_set_mp_load(c) ==
    /\ pc[c] = "L231"
    /\ rax' = [rax EXCEPT ![c] = reg_tmp]
    /\ Goto(c, "L231s")
    /\ UNCHANGED <<edx, cr0, cr4, reg_tmp, init_flags, cur_cpu, gs_base,
                   cpu_lock, cpu_lapic_base, tss_loaded, madt_calls,
                   madt_done, ioapic_calls, ioapic_done, acpi_lapic_base,
                   lapic_up, intr_on, try_spectre_mitigate, trace, bvars,
                   pvars>>

\* The store of the read-modify-write of line 231; the register is dead
\* afterwards.
L231_set_mp_store(c) ==
    /\ pc[c] = "L231s"
    /\ reg_tmp' = BitOr(rax[c], BIT(1))
    /\ rax' = [rax EXCEPT ![c] = 0]
    /\ Goto(c, "L232")
    /\ UNCHANGED <<edx, cr0, cr4, init_flags, cur_cpu, gs_base, cpu_lock,
                   cpu_lapic_base, tss_loaded, madt_calls, madt_done,
                   ioapic_calls, ioapic_done, acpi_lapic_base, lapic_up,
                   intr_on, try_spectre_mitigate, trace, bvars, pvars>>

\* amd64_write_cr0(reg_tmp);
L232_write_cr0(c) ==
    /\ pc[c] = "L232"
    /\ cr0' = [cr0 EXCEPT ![c] = reg_tmp]
    /\ Emit(c, "cr0")
    /\ Goto(c, "L235")
    /\ UNCHANGED <<rax, edx, cr4, reg_tmp, init_flags, cur_cpu, gs_base, cpu_lock,
                   cpu_lapic_base, tss_loaded, madt_calls, madt_done,
                   ioapic_calls, ioapic_done, acpi_lapic_base, lapic_up,
                   intr_on, try_spectre_mitigate, bvars, pvars>>

\* reg_tmp = amd64_read_cr4();
L235_read_cr4(c) ==
    /\ pc[c] = "L235"
    /\ reg_tmp' = cr4[c]
    /\ Goto(c, "L236")
    /\ UNCHANGED <<rax, edx, cr0, cr4, init_flags, cur_cpu, gs_base,
                   cpu_lock, cpu_lapic_base, tss_loaded, madt_calls,
                   madt_done, ioapic_calls, ioapic_done, acpi_lapic_base,
                   lapic_up, intr_on, try_spectre_mitigate, trace, bvars,
                   pvars>>

\* reg_tmp |= 3 << 9;
\* The load of the read-modify-write: the static is read into a register.
L236_set_osfxsr_load(c) ==
    /\ pc[c] = "L236"
    /\ rax' = [rax EXCEPT ![c] = reg_tmp]
    /\ Goto(c, "L236s")
    /\ UNCHANGED <<edx, cr0, cr4, reg_tmp, init_flags, cur_cpu, gs_base,
                   cpu_lock, cpu_lapic_base, tss_loaded, madt_calls,
                   madt_done, ioapic_calls, ioapic_done, acpi_lapic_base,
                   lapic_up, intr_on, try_spectre_mitigate, trace, bvars,
                   pvars>>

\* The store of the read-modify-write of line 236; the register is dead
\* afterwards.
L236_set_osfxsr_store(c) ==
    /\ pc[c] = "L236s"
    /\ reg_tmp' = BitOr(rax[c], 3 * 2^9)
    /\ rax' = [rax EXCEPT ![c] = 0]
    /\ Goto(c, "L237")
    /\ UNCHANGED <<edx, cr0, cr4, init_flags, cur_cpu, gs_base, cpu_lock,
                   cpu_lapic_base, tss_loaded, madt_calls, madt_done,
                   ioapic_calls, ioapic_done, acpi_lapic_base, lapic_up,
                   intr_on, try_spectre_mitigate, trace, bvars, pvars>>

\* amd64_write_cr4(reg_tmp);
L237_write_cr4(c) ==
    /\ pc[c] = "L237"
    /\ cr4' = [cr4 EXCEPT ![c] = reg_tmp]
    /\ Emit(c, "cr4")
    /\ Goto(c, "L242")
    /\ UNCHANGED <<rax, edx, cr0, reg_tmp, init_flags, cur_cpu, gs_base, cpu_lock,
                   cpu_lapic_base, tss_loaded, madt_calls, madt_done,
                   ioapic_calls, ioapic_done, acpi_lapic_base, lapic_up,
                   intr_on, try_spectre_mitigate, bvars, pvars>>

\* Mutant: panic returns to its caller.
L239_panic_returns(c) ==
    /\ pc[c] = "L239"
    /\ Emit(c, "panic")
    /\ Goto(c, "L242")
    /\ UNCHANGED <<rax, edx, cr0, cr4, reg_tmp, init_flags, cur_cpu, gs_base,
                   cpu_lock, cpu_lapic_base, tss_loaded, madt_calls,
                   madt_done, ioapic_calls, ioapic_done, acpi_lapic_base,
                   lapic_up, intr_on, try_spectre_mitigate, bvars, pvars>>

\* panic("SSE/SSE2 not supported!\n"): prints the diagnostic and halts.
L239_panic(c) ==
    /\ pc[c] = "L239"
    /\ Emit(c, "panic")
    /\ Goto(c, "halted")
    /\ UNCHANGED <<rax, edx, cr0, cr4, reg_tmp, init_flags, cur_cpu, gs_base,
                   cpu_lock, cpu_lapic_base, tss_loaded, madt_calls,
                   madt_done, ioapic_calls, ioapic_done, acpi_lapic_base,
                   lapic_up, intr_on, try_spectre_mitigate, bvars, pvars>>

\* Mutant: the descriptor lock is not taken.
L242_no_lock(c) ==
    /\ pc[c] = "L242"
    /\ cpu_lock' = cpu_lock
    /\ Emit(c, "lock")
    /\ Goto(c, "L243")
    /\ UNCHANGED <<rax, edx, cr0, cr4, reg_tmp, init_flags, cur_cpu, gs_base,
                   cpu_lapic_base, tss_loaded, madt_calls, madt_done,
                   ioapic_calls, ioapic_done, acpi_lapic_base, lapic_up,
                   intr_on, try_spectre_mitigate, bvars, pvars>>

\* CPU_INFO_LOCK(cur_cpu): spins until the descriptor's lock is free.
L242_lock(c) ==
    /\ pc[c] = "L242"
    /\ cpu_lock[cur_cpu[c]] = NULL
    /\ cpu_lock' = [cpu_lock EXCEPT ![cur_cpu[c]] = c]
    /\ Emit(c, "lock")
    /\ Goto(c, "L243")
    /\ UNCHANGED <<rax, edx, cr0, cr4, reg_tmp, init_flags, cur_cpu, gs_base,
                   cpu_lapic_base, tss_loaded, madt_calls, madt_done,
                   ioapic_calls, ioapic_done, acpi_lapic_base, lapic_up,
                   intr_on, try_spectre_mitigate, bvars, pvars>>

\* init_tss(cur_cpu): write_tss(cur_cpu, desc); tss_load();
init_tss(c) ==
    /\ pc[c] = "L243"
    /\ tss_loaded' = [tss_loaded EXCEPT ![c] = TRUE]
    /\ Emit(c, "tss")
    /\ Goto(c, "L249")
    /\ UNCHANGED <<rax, edx, cr0, cr4, reg_tmp, init_flags, cur_cpu, gs_base,
                   cpu_lock, cpu_lapic_base, madt_calls, madt_done,
                   ioapic_calls, ioapic_done, acpi_lapic_base, lapic_up,
                   intr_on, try_spectre_mitigate, bvars, pvars>>

\* Mutant: a core that finds the flag set spins until it is clear.
L249_spin_acpi(c) ==
    /\ pc[c] = "L249"
    /\ ~TEST(init_flags, INIT_FLAG_ACPI)
    /\ Goto(c, "L254")
    /\ UNCHANGED <<rax, edx, cr0, cr4, reg_tmp, init_flags, cur_cpu, gs_base,
                   cpu_lock, cpu_lapic_base, tss_loaded, madt_calls,
                   madt_done, ioapic_calls, ioapic_done, acpi_lapic_base,
                   lapic_up, intr_on, try_spectre_mitigate, trace, bvars,
                   pvars>>

\* if (!__TEST(init_flags, INIT_FLAG_ACPI)) {
L249_test_acpi(c) ==
    /\ pc[c] = "L249"
    /\ IF ~TEST(init_flags, INIT_FLAG_ACPI)
       THEN Goto(c, "L254") ELSE Goto(c, "L257")
    /\ UNCHANGED <<rax, edx, cr0, cr4, reg_tmp, init_flags, cur_cpu, gs_base,
                   cpu_lock, cpu_lapic_base, tss_loaded, madt_calls,
                   madt_done, ioapic_calls, ioapic_done, acpi_lapic_base,
                   lapic_up, intr_on, try_spectre_mitigate, trace, bvars,
                   pvars>>

\* init_flags |= INIT_FLAG_ACPI;
\* The load of the read-modify-write: the static is read into a register.
L254_set_acpi_load(c) ==
    /\ pc[c] = "L254"
    /\ rax' = [rax EXCEPT ![c] = init_flags]
    /\ Goto(c, "L254s")
    /\ UNCHANGED <<edx, cr0, cr4, reg_tmp, init_flags, cur_cpu, gs_base,
                   cpu_lock, cpu_lapic_base, tss_loaded, madt_calls,
                   madt_done, ioapic_calls, ioapic_done, acpi_lapic_base,
                   lapic_up, intr_on, try_spectre_mitigate, trace, bvars,
                   pvars>>

\* The store of the read-modify-write of line 254; the register is dead
\* afterwards.
L254_set_acpi_store(c) ==
    /\ pc[c] = "L254s"
    /\ init_flags' = BitOr(rax[c], INIT_FLAG_ACPI)
    /\ rax' = [rax EXCEPT ![c] = 0]
    /\ Goto(c, "L255")
    /\ UNCHANGED <<edx, cr0, cr4, reg_tmp, cur_cpu, gs_base, cpu_lock,
                   cpu_lapic_base, tss_loaded, madt_calls, madt_done,
                   ioapic_calls, ioapic_done, acpi_lapic_base, lapic_up,
                   intr_on, try_spectre_mitigate, trace, bvars, pvars>>

\* acpi_parse_madt(cur_cpu); (the call starts)
L255_acpi_parse_madt(c) ==
    /\ pc[c] = "L255"
    /\ madt_calls' = madt_calls + 1
    /\ Emit(c, "madt")
    /\ Goto(c, "L255r")
    /\ UNCHANGED <<rax, edx, cr0, cr4, reg_tmp, init_flags, cur_cpu, gs_base,
                   cpu_lock, cpu_lapic_base, tss_loaded, madt_done,
                   ioapic_calls, ioapic_done, acpi_lapic_base, lapic_up,
                   intr_on, try_spectre_mitigate, bvars, pvars>>

\* acpi_parse_madt returns: the parsed local APIC base is now queryable.
L255_acpi_parse_madt_ret(c) ==
    /\ pc[c] = "L255r"
    /\ madt_done' = madt_done + 1
    /\ acpi_lapic_base' = LAPIC_MMIO_BASE
    /\ Goto(c, "L257")
    /\ UNCHANGED <<rax, edx, cr0, cr4, reg_tmp, init_flags, cur_cpu, gs_base,
                   cpu_lock, cpu_lapic_base, tss_loaded, madt_calls,
                   ioapic_calls, ioapic_done, lapic_up, intr_on,
                   try_spectre_mitigate, trace, bvars, pvars>>

\* if (!__TEST(init_flags, INIT_FLAG_IOAPIC)) {
L257_test_ioapic(c) ==
    /\ pc[c] = "L257"
    /\ IF ~TEST(init_flags, INIT_FLAG_IOAPIC)
       THEN Goto(c, "L258") ELSE Goto(c, "L262")
    /\ UNCHANGED <<rax, edx, cr0, cr4, reg_tmp, init_flags, cur_cpu, gs_base,
                   cpu_lock, cpu_lapic_base, tss_loaded, madt_calls,
                   madt_done, ioapic_calls, ioapic_done, acpi_lapic_base,
                   lapic_up, intr_on, try_spectre_mitigate, trace, bvars,
                   pvars>>

\* init_flags |= INIT_FLAG_IOAPIC;
\* The load of the read-modify-write: the static is read into a register.
L258_set_ioapic_load(c) ==
    /\ pc[c] = "L258"
    /\ rax' = [rax EXCEPT ![c] = init_flags]
    /\ Goto(c, "L258s")
    /\ UNCHANGED <<edx, cr0, cr4, reg_tmp, init_flags, cur_cpu, gs_base,
                   cpu_lock, cpu_lapic_base, tss_loaded, madt_calls,
                   madt_done, ioapic_calls, ioapic_done, acpi_lapic_base,
                   lapic_up, intr_on, try_spectre_mitigate, trace, bvars,
                   pvars>>

\* The store of the read-modify-write of line 258; the register is dead
\* afterwards.
L258_set_ioapic_store(c) ==
    /\ pc[c] = "L258s"
    /\ init_flags' = BitOr(rax[c], INIT_FLAG_IOAPIC)
    /\ rax' = [rax EXCEPT ![c] = 0]
    /\ Goto(c, "L259")
    /\ UNCHANGED <<edx, cr0, cr4, reg_tmp, cur_cpu, gs_base, cpu_lock,
                   cpu_lapic_base, tss_loaded, madt_calls, madt_done,
                   ioapic_calls, ioapic_done, acpi_lapic_base, lapic_up,
                   intr_on, try_spectre_mitigate, trace, bvars, pvars>>

\* ioapic_init(); (the call starts)
L259_ioapic_init(c) ==
    /\ pc[c] = "L259"
    /\ ioapic_calls' = ioapic_calls + 1
    /\ Emit(c, "ioapic")
    /\ Goto(c, "L259r")
    /\ UNCHANGED <<rax, edx, cr0, cr4, reg_tmp, init_flags, cur_cpu, gs_base,
                   cpu_lock, cpu_lapic_base, tss_loaded, madt_calls,
                   madt_done, ioapic_done, acpi_lapic_base, lapic_up,
                   intr_on, try_spectre_mitigate, bvars, pvars>>

\* ioapic_init returns.
L259_ioapic_init_ret(c) ==
    /\ pc[c] = "L259r"
    /\ ioapic_done' = ioapic_done + 1
    /\ Goto(c, "L262")
    /\ UNCHANGED <<rax, edx, cr0, cr4, reg_tmp, init_flags, cur_cpu, gs_base,
                   cpu_lock, cpu_lapic_base, tss_loaded, madt_calls,
                   madt_done, ioapic_calls, acpi_lapic_base, lapic_up,
                   intr_on, try_spectre_mitigate, trace, bvars, pvars>>

\* cur_cpu->lapic_base = acpi_get_lapic_base();
L262_lapic_base(c) ==
    /\ pc[c] = "L262"
    /\ cpu_lapic_base' = [cpu_lapic_base EXCEPT ![cur_cpu[c]] = acpi_lapic_base]
    /\ Emit(c, "lapic_base")
    /\ Goto(c, "L263")
    /\ UNCHANGED <<rax, edx, cr0, cr4, reg_tmp, init_flags, cur_cpu, gs_base,
                   cpu_lock, tss_loaded, madt_calls, madt_done, ioapic_calls,
                   ioapic_done, acpi_lapic_base, lapic_up, intr_on,
                   try_spectre_mitigate, bvars, pvars>>

\* Mutant: interrupts are enabled right after the unlock.
L263_unlock_then_sti(c) ==
    /\ pc[c] = "L263"
    /\ cpu_lock' = [cpu_lock EXCEPT ![cur_cpu[c]] = NULL]
    /\ Emit(c, "unlock")
    /\ Goto(c, "L271")
    /\ UNCHANGED <<rax, edx, cr0, cr4, reg_tmp, init_flags, cur_cpu, gs_base,
                   cpu_lapic_base, tss_loaded, madt_calls, madt_done,
                   ioapic_calls, ioapic_done, acpi_lapic_base, lapic_up,
                   intr_on, try_spectre_mitigate, bvars, pvars>>

\* CPU_INFO_UNLOCK(cur_cpu);
L263_unlock(c) ==
    /\ pc[c] = "L263"
    /\ cpu_lock' = [cpu_lock EXCEPT ![cur_cpu[c]] = NULL]
    /\ Emit(c, "unlock")
    /\ Goto(c, "L265")
    /\ UNCHANGED <<rax, edx, cr0, cr4, reg_tmp, init_flags, cur_cpu, gs_base,
                   cpu_lapic_base, tss_loaded, madt_calls, madt_done,
                   ioapic_calls, ioapic_done, acpi_lapic_base, lapic_up,
                   intr_on, try_spectre_mitigate, bvars, pvars>>

\* lapic_init();
L265_lapic_init(c) ==
    /\ pc[c] = "L265"
    /\ lapic_up' = [lapic_up EXCEPT ![c] = TRUE]
    /\ Emit(c, "lapic")
    /\ Goto(c, "L268")
    /\ UNCHANGED <<rax, edx, cr0, cr4, reg_tmp, init_flags, cur_cpu, gs_base,
                   cpu_lock, cpu_lapic_base, tss_loaded, madt_calls,
                   madt_done, ioapic_calls, ioapic_done, acpi_lapic_base,
                   intr_on, try_spectre_mitigate, bvars, pvars>>

\* if (try_spectre_mitigate != NULL) try_spectre_mitigate();
L268_spectre(c) ==
    /\ pc[c] = "L268"
    /\ IF try_spectre_mitigate
       THEN Emit(c, "spectre")
       ELSE UNCHANGED trace
    /\ Goto(c, "L271")
    /\ UNCHANGED <<rax, edx, cr0, cr4, reg_tmp, init_flags, cur_cpu, gs_base,
                   cpu_lock, cpu_lapic_base, tss_loaded, madt_calls,
                   madt_done, ioapic_calls, ioapic_done, acpi_lapic_base,
                   lapic_up, intr_on, try_spectre_mitigate, bvars, pvars>>

\* __ASMV("sti");
L271_sti(c) ==
    /\ pc[c] = "L271"
    /\ intr_on' = [intr_on EXCEPT ![c] = TRUE]
    /\ Emit(c, "sti")
    /\ Goto(c, "done")
    /\ UNCHANGED <<rax, edx, cr0, cr4, reg_tmp, init_flags, cur_cpu, gs_base,
                   cpu_lock, cpu_lapic_base, tss_loaded, madt_calls,
                   madt_done, ioapic_calls, ioapic_done, acpi_lapic_base,
                   lapic_up, try_spectre_mitigate, bvars, pvars>>

\* One statement of processor_init on core c.
processor_init(c) ==
    \/ L220_dynalloc(c)
    \/ L225_write_gs_base(c)
    \/ L227_if_sse(c)
    \/ L229_read_cr0(c)
    \/ L230_clear_em_load(c)
    \/ L230_clear_em_store(c)
    \/ L231_set_mp_load(c)
    \/ L231_set_mp_store(c)
    \/ L232_write_cr0(c)
    \/ L235_read_cr4(c)
    \/ L236_set_osfxsr_load(c)
    \/ L236_set_osfxsr_store(c)
    \/ L237_write_cr4(c)
    \/ L239_panic(c)
    \/ L242_lock(c)
    \/ init_tss(c)
    \/ L249_test_acpi(c)
    \/ L254_set_acpi_load(c)
    \/ L254_set_acpi_store(c)
    \/ L255_acpi_parse_madt(c)
    \/ L255_acpi_parse_madt_ret(c)
    \/ L257_test_ioapic(c)
    \/ L258_set_ioapic_load(c)
    \/ L258_set_ioapic_store(c)
    \/ L259_ioapic_init(c)
    \/ L259_ioapic_init_ret(c)
    \/ L262_lapic_base(c)
    \/ L263_unlock(c)
    \/ L265_lapic_init(c)
    \/ L268_spectre(c)
    \/ L271_sti(c)

\* Core c is not executing processor_init: it has not called it yet, or the
\* call has returned.
Outside(c) == pc[c] \in {"L220", "done"}

\* intr_mask(): cli.
intr_mask(c) ==
    /\ Outside(c)
    /\ intr_on' = [intr_on EXCEPT ![c] = FALSE]
    /\ UNCHANGED <<rax, edx, cr0, cr4, reg_tmp, init_flags, cur_cpu, gs_base,
                   cpu_lock, cpu_lapic_base, tss_loaded, madt_calls,
                   madt_done, ioapic_calls, ioapic_done, acpi_lapic_base,
                   lapic_up, try_spectre_mitigate, pc, trace, bvars, pvars>>

\* intr_unmask(): sti.
intr_unmask(c) ==
    /\ Outside(c)
    /\ intr_on' = [intr_on EXCEPT ![c] = TRUE]
    /\ UNCHANGED <<rax, edx, cr0, cr4, reg_tmp, init_flags, cur_cpu, gs_base,
                   cpu_lock, cpu_lapic_base, tss_loaded, madt_calls,
                   madt_done, ioapic_calls, ioapic_done, acpi_lapic_base,
                   lapic_up, try_spectre_mitigate, pc, trace, bvars, pvars>>

\* processor_halt(): cli; hlt.  The core executes nothing further.
processor_halt(c) ==
    /\ Outside(c)
    /\ intr_on' = [intr_on EXCEPT ![c] = FALSE]
    /\ Goto(c, "halted")
    /\ UNCHANGED <<rax, edx, cr0, cr4, reg_tmp, init_flags, cur_cpu, gs_base,
                   cpu_lock, cpu_lapic_base, tss_loaded, madt_calls,
                   madt_done, ioapic_calls, ioapic_done, acpi_lapic_base,
                   lapic_up, try_spectre_mitigate, trace, bvars, pvars>>

(***************************************************************************)
(* pre_init and interrupts_init; c is the executing core.                  *)
(***************************************************************************)
Vectors == 0..255

\* An empty gate (a vector no idt_set_desc call has written).
NoGate == [type |-> "none", isr |-> "none", ist |-> 0]

\* The IDT is kept by the vectors written so far; every other vector of
\* Vectors holds NoGate.
EmptyIdt == [v \in {} |-> NoGate]

\* The gate at vector vec of table t.
Gate(t, vec) == IF vec \in DOMAIN t THEN t[vec] ELSE NoGate

\* Mutant: the gate's present bit is toggled instead of set.
idt_set_desc_toggle(t, vec, type, isr, ist) ==
    [v \in DOMAIN t \cup {vec} |->
        IF v # vec THEN t[v]
        ELSE IF Gate(t, vec) = [type |-> type, isr |-> isr, ist |-> ist]
             THEN NoGate
             ELSE [type |-> type, isr |-> isr, ist |-> ist]]

\* idt_set_desc(vec, type, isr, ist) on table t.
idt_set_desc(t, vec, type, isr, ist) ==
    [v \in DOMAIN t \cup {vec} |->
        IF v = vec THEN [type |-> type, isr |-> isr, ist |-> ist] ELSE t[v]]

\* The thirteen idt_set_desc calls of interrupts_init, in order, each with
\* the statement it is made at.
IdtCalls ==
    <<[at |-> "L75", vec |-> 0, type |-> "IDT_TRAP_GATE_FLAGS",
       isr |-> "arith_err", ist |-> 0],
      [at |-> "L76", vec |-> 2, type |-> "IDT_TRAP_GATE_FLAGS",
       isr |-> "nmi", ist |-> 0],
      [at |-> "L77", vec |-> 3, type |-> "IDT_TRAP_GATE_FLAGS",
       isr |-> "breakpoint_handler", ist |-> 0],
      [at |-> "L78", vec |-> 4, type |-> "IDT_TRAP_GATE_FLAGS",
       isr |-> "overflow", ist |-> 0],
      [at |-> "L79", vec |-> 5, type |-> "IDT_TRAP_GATE_FLAGS",
       isr |-> "bound_range", ist |-> 0],
      [at |-> "L80", vec |-> 6, type |-> "IDT_TRAP_GATE_FLAGS",
       isr |-> "invl_op", ist |-> 0],
      [at |-> "L81", vec |-> 8, type |-> "IDT_TRAP_GATE_FLAGS",
       isr |-> "double_fault", ist |-> 0],
      [at |-> "L82", vec |-> 10, type |-> "IDT_TRAP_GATE_FLAGS",
       isr |-> "invl_tss", ist |-> 0],
      [at |-> "L83", vec |-> 11, type |-> "IDT_TRAP_GATE_FLAGS",
       isr |-> "segnp", ist |-> 0],
      [at |-> "L84", vec |-> 12, type |-> "IDT_TRAP_GATE_FLAGS",
       isr |-> "ss_fault", ist |-> 0],
      [at |-> "L85", vec |-> 13, type |-> "IDT_TRAP_GATE_FLAGS",
       isr |-> "general_prot", ist |-> 0],
      [at |-> "L86", vec |-> 14, type |-> "IDT_TRAP_GATE_FLAGS",
       isr |-> "page_fault", ist |-> 0],
      [at |-> "L87", vec |-> 128, type |-> "IDT_INT_GATE_USER",
       isr |-> "syscall_isr", ist |-> 0]>>

RECURSIVE idt_after(_, _)
\* Table t after the first k calls of IdtCalls.
idt_after(t, k) ==
    IF k = 0 THEN t
    ELSE LET d == IdtCalls[k]
         IN  idt_set_desc(idt_after(t, k - 1), d.vec, d.type, d.isr, d.ist)

\* Table t after all the idt_set_desc calls of interrupts_init.
interrupts_init_table(t) == idt_after(t, Len(IdtCalls))

BootCall(c, fn) == boot_calls' = Append(boot_calls, <<c, fn>>)

BGoto(c, l) == bpc' = [bpc EXCEPT ![c] = l]

\* if (is_bsp) {
P137_if_bsp(c) ==
    /\ bpc[c] = "L137"
    /\ IF is_bsp THEN BGoto(c, "L138") ELSE BGoto(c, "L144")
    /\ UNCHANGED <<is_bsp, boot_calls, idt, idtr, gdtr, ivars, pvars>>

\* Mutant: the once-per-boot flag is left set.
P138_keep_bsp(c) ==
    /\ bpc[c] = "L138"
    /\ is_bsp' = is_bsp
    /\ BGoto(c, "L140")
    /\ UNCHANGED <<boot_calls, idt, idtr, gdtr, ivars, pvars>>

\* is_bsp = false;
P138_clear_bsp(c) ==
    /\ bpc[c] = "L138"
    /\ is_bsp' = FALSE
    /\ BGoto(c, "L140")
    /\ UNCHANGED <<boot_calls, idt, idtr, gdtr, ivars, pvars>>

\* uart8250_try_init();
P140_uart8250_try_init(c) ==
    /\ bpc[c] = "L140"
    /\ BootCall(c, "uart8250_try_init")
    /\ BGoto(c, "L141")
    /\ UNCHANGED <<is_bsp, idt, idtr, gdtr, ivars, pvars>>

\* vm_physseg_init();
P141_vm_physseg_init(c) ==
    /\ bpc[c] = "L141"
    /\ BootCall(c, "vm_physseg_init")
    /\ BGoto(c, "L142")
    /\ UNCHANGED <<is_bsp, idt, idtr, gdtr, ivars, pvars>>

\* vm_init();
P142_vm_init(c) ==
    /\ bpc[c] = "L142"
    /\ BootCall(c, "vm_init")
    /\ BGoto(c, "L144")
    /\ UNCHANGED <<is_bsp, idt, idtr, gdtr, ivars, pvars>>

\* interrupts_init(); (the call starts)
P144_interrupts_init(c) ==
    /\ bpc[c] = "L144"
    /\ BootCall(c, "interrupts_init")
    /\ BGoto(c, IdtCalls[1].at)
    /\ UNCHANGED <<is_bsp, idt, idtr, gdtr, ivars, pvars>>

\* idt_set_desc(vec, type, ISR(isr), 0); one of the thirteen calls.
I75_idt_set_desc(c) ==
    \E k \in DOMAIN IdtCalls :
        LET d == IdtCalls[k] IN
        /\ bpc[c] = d.at
        /\ idt' = idt_set_desc(idt, d.vec, d.type, d.isr, d.ist)
        /\ BGoto(c, IF k < Len(IdtCalls) THEN IdtCalls[k + 1].at ELSE "L88")
        /\ UNCHANGED <<is_bsp, boot_calls, idtr, gdtr, ivars, pvars>>

\* idt_load(); interrupts_init returns.
I88_idt_load(c) ==
    /\ bpc[c] = "L88"
    /\ idtr' = [idtr EXCEPT ![c] = TRUE]
    /\ BGoto(c, "L145")
    /\ UNCHANGED <<is_bsp, boot_calls, idt, gdtr, ivars, pvars>>

\* One statement of interrupts_init on core c.
interrupts_init(c) ==
    \/ I75_idt_set_desc(c)
    \/ I88_idt_load(c)

\* gdt_load(&g_gdtr);
P145_gdt_load(c) ==
    /\ bpc[c] = "L145"
    /\ gdtr' = [gdtr EXCEPT ![c] = TRUE]
    /\ BootCall(c, "gdt_load")
    /\ BGoto(c, "done")
    /\ UNCHANGED <<is_bsp, idt, idtr, ivars, pvars>>

\* One statement of pre_init on core c.
pre_init(c) ==
    \/ P137_if_bsp(c)
    \/ P138_clear_bsp(c)
    \/ P140_uart8250_try_init(c)
    \/ P141_vm_physseg_init(c)
    \/ P142_vm_init(c)
    \/ P144_interrupts_init(c)
    \/ interrupts_init(c)
    \/ P145_gdt_load(c)

(***************************************************************************)
(* Process FPU context: processor_init_pcb, processor_free_pcb and         *)
(* processor_switch_to.                                                    *)
(***************************************************************************)
\* Physical page frames by frame number; frame 0 is physical address 0,
\* which vm_alloc_pageframe never hands out (0 is its failure value).
Frames == 0..NumFrames

\* The offset of the kernel's direct map of physical memory, in frames.
VM_HIGHER_HALF == 16

PHYS_TO_VIRT(phys) == phys + VM_HIGHER_HALF

VIRT_TO_PHYS(virt) == virt - VM_HIGHER_HALF

\* const uint16_t FPU_FCW = 0x33F;
FPU_FCW == 831

\* const uint32_t SSE_MXCSR = 0x1F80;
SSE_MXCSR == 8064

\* The x87 control word after FNINIT (0x37F), a control word with rounding
\* toward zero (0xF7F), and MXCSR with the sticky precision flag set
\* (0x1FA0): control state a running process may have.
X87_RESET_FCW == 895

X87_CHOP_FCW == 3967

MXCSR_PE == 8096

\* The x87 control word as the processor holds it: bit 6 is reserved and
\* reads as 1 whatever value is loaded.
x87_fcw(v) == BitOr(v, BIT(6))

\* A register image (what FXSAVE stores): the x87 control word, MXCSR, and
\* the x87/XMM data registers abstracted to one number.
ResetImage == [fcw |-> X87_RESET_FCW, mxcsr |-> SSE_MXCSR, data |-> 0]

\* The images a process can put into the registers by its own instructions.
UserImages ==
    {[fcw |-> x87_fcw(FPU_FCW), mxcsr |-> SSE_MXCSR, data |-> d] :
        d \in 0..MaxData}
    \cup {[fcw |-> X87_CHOP_FCW, mxcsr |-> MXCSR_PE, data |-> d] :
             d \in 0..MaxData}

Call(op, p, arg, ret) == [op |-> op, proc |-> p, arg |-> arg, ret |-> ret]

\* vm_alloc_pageframe(1): the physical address of a free frame, taken from
\* the allocator, or 0 when no frame is free.
vm_alloc_pageframe ==
    IF free_frames \cap (1..NumFrames) = {}
    THEN {0}
    ELSE free_frames \cap (1..NumFrames)

\* fldcw FPU_FCW; ldmxcsr SSE_MXCSR: the two control registers are loaded,
\* the data registers keep what they hold.
LoadControl(regs) ==
    [regs EXCEPT !.fcw = x87_fcw(FPU_FCW), !.mxcsr = SSE_MXCSR]

\* amd64_fxsave(area): the live registers are stored at virtual address area.
amd64_fxsave(m, area, regs) == [m EXCEPT ![VIRT_TO_PHYS(area)] = regs]

\* amd64_fxrstor(area): the registers after loading the image at virtual
\* address area.
amd64_fxrstor(m, area) ==
    [m[VIRT_TO_PHYS(area)] EXCEPT !.fcw = x87_fcw(@)]

processor_init_pcb(p) ==
    \E page \in vm_alloc_pageframe :
        LET area == PHYS_TO_VIRT(page) IN
        /\ free_frames' = free_frames \ {page}
        /\ fpu_state' = [fpu_state EXCEPT ![p] = area]
        /\ IF area = NULL
           THEN /\ UNCHANGED <<fpu, mem>>
                /\ last' = Call("init_pcb", p, page, -1)
           ELSE /\ fpu' = LoadControl(fpu)
                /\ mem' = amd64_fxsave(mem, area, LoadControl(fpu))
                /\ last' = Call("init_pcb", p, page, 0)
        /\ UNCHANGED curproc

processor_free_pcb(p) ==
    IF fpu_state[p] = NULL
    THEN /\ last' = Call("free_pcb", p, 0, -1)
         /\ UNCHANGED <<fpu_state, mem, free_frames, fpu, curproc>>
    ELSE /\ free_frames' = free_frames \cup {VIRT_TO_PHYS(fpu_state[p])}
         /\ last' = Call("free_pcb", p, 0, 0)
         /\ UNCHANGED <<fpu_state, mem, fpu, curproc>>

\* Mutant: the incoming thread's image is not loaded.
switch_to_no_fxrstor(old, new) ==
    IF (old # NULL /\ fpu_state[old] = NULL) \/ fpu_state[new] = NULL
    THEN /\ last' = Call("fault", new, old, 0)
         /\ UNCHANGED <<fpu_state, mem, free_frames, fpu, curproc>>
    ELSE /\ mem' = (IF old # NULL
                    THEN amd64_fxsave(mem, fpu_state[old], fpu)
                    ELSE mem)
         /\ fpu' = fpu
         /\ curproc' = new
         /\ last' = Call("switch_to", new, old, 0)
         /\ UNCHANGED <<fpu_state, free_frames>>

\* Mutant: the outgoing thread's image is not stored.
switch_to_no_fxsave(old, new) ==
    IF (old # NULL /\ fpu_state[old] = NULL) \/ fpu_state[new] = NULL
    THEN /\ last' = Call("fault", new, old, 0)
         /\ UNCHANGED <<fpu_state, mem, free_frames, fpu, curproc>>
    ELSE /\ mem' = mem
         /\ fpu' = amd64_fxrstor(mem, fpu_state[new])
         /\ curproc' = new
         /\ last' = Call("switch_to", new, old, 0)
         /\ UNCHANGED <<fpu_state, free_frames>>

\* processor_switch_to(old_td, new_td); old_td may be NULL.  Neither
\* save-area pointer is tested: amd64_fxsave or amd64_fxrstor of a NULL save
\* area faults at that instruction, what was stored before stays stored and
\* the call does not return.  Otherwise the core runs new_td afterwards.
processor_switch_to(old, new) ==
    IF old # NULL /\ fpu_state[old] = NULL
    THEN /\ last' = Call("fault", new, old, 0)
         /\ UNCHANGED <<fpu_state, mem, free_frames, fpu, curproc>>
    ELSE LET saved == IF old # NULL
                      THEN amd64_fxsave(mem, fpu_state[old], fpu)
                      ELSE mem
         IN  IF fpu_state[new] = NULL
             THEN /\ mem' = saved
                  /\ last' = Call("fault", new, old, 0)
                  /\ UNCHANGED <<fpu_state, free_frames, fpu, curproc>>
             ELSE /\ mem' = saved
                  /\ fpu' = amd64_fxrstor(saved, fpu_state[new])
                  /\ curproc' = new
                  /\ last' = Call("switch_to", new, old, 0)
                  /\ UNCHANGED <<fpu_state, free_frames>>

\* The running process executes floating-point/SIMD instructions that leave
\* img in the registers.
FpuInsn(img) ==
    /\ curproc # NULL
    /\ fpu' = img
    /\ last' = Call("insn", curproc, 0, 0)
    /\ UNCHANGED <<fpu_state, mem, free_frames, curproc>>

\* A call is made: the kernel has not faulted, and the number of calls of a
\* run is bounded.
Tick ==
    /\ last.op # "fault"
    /\ nops < MaxOps
    /\ nops' = nops + 1

\* The callers: process creation and teardown, the scheduler (which passes
\* the running thread, or NULL, as old_td), and the running process.
allocate(p) ==
    /\ Tick
    /\ processor_init_pcb(p)
    /\ UNCHANGED <<rt, ivars, bvars>>

release(p) ==
    /\ Tick
    /\ processor_free_pcb(p)
    /\ UNCHANGED <<rt, ivars, bvars>>

switch_context(old, new) ==
    /\ Tick
    /\ processor_switch_to(old, new)
    /\ UNCHANGED <<rt, ivars, bvars>>

RunFpu(img) ==
    /\ Tick
    /\ FpuInsn(img)
    /\ UNCHANGED <<rt, ivars, bvars>>

\* The round trip: process rt.A runs with rt.R in the registers, the core
\* switches to rt.B, rt.B changes the registers, the core switches back.
RT_SwitchOut ==
    /\ rt.phase = "A_runs"
    /\ Tick
    /\ processor_switch_to(rt.A, rt.B)
    /\ rt' = [rt EXCEPT !.phase = "B_runs"]
    /\ UNCHANGED <<ivars, bvars>>

RT_BRuns(img) ==
    /\ rt.phase = "B_runs"
    /\ Tick
    /\ FpuInsn(img)
    /\ UNCHANGED <<rt, ivars, bvars>>

RT_SwitchBack ==
    /\ rt.phase = "B_runs"
    /\ Tick
    /\ processor_switch_to(rt.B, rt.A)
    /\ rt' = [rt EXCEPT !.phase = "back", !.Bout = fpu]
    /\ UNCHANGED <<ivars, bvars>>

(***************************************************************************)
(* Initial states and specifications.                                      *)
(***************************************************************************)
\* The state when the cores enter processor_init: interrupts are off, the
\* static variables hold their initialisers, no descriptor exists yet.
InitOrch ==
    /\ pc = [c \in Cores |-> "L220"]
    /\ reg_tmp = 0
    /\ rax = [c \in Cores |-> 0]
    /\ init_flags = 0
    /\ cur_cpu = [c \in Cores |-> NULL]
    /\ gs_base = [c \in Cores |-> NULL]
    /\ cpu_lock = [d \in Descs |-> NULL]
    /\ cpu_lapic_base = [d \in Descs |-> 0]
    /\ tss_loaded = [c \in Cores |-> FALSE]
    /\ madt_calls = 0
    /\ madt_done = 0
    /\ ioapic_calls = 0
    /\ ioapic_done = 0
    /\ acpi_lapic_base = 0
    /\ lapic_up = [c \in Cores |-> FALSE]
    /\ intr_on = [c \in Cores |-> FALSE]
    /\ trace = [c \in Cores |-> <<>>]

\* No core has entered processor_init (the other parts are being run).
InitOrchIdle ==
    /\ InitOrch
    /\ edx = [c \in Cores |-> 1 + BIT(25) + BIT(26)]
    /\ cr0 = [c \in Cores |-> 17]
    /\ cr4 = [c \in Cores |-> 32]
    /\ try_spectre_mitigate = FALSE

\* Tables a core may find before interrupts_init: empty, or with stale gates
\* at vectors interrupts_init sets (3, 128) or does not set (1, 7, 32).
StaleGate == [type |-> "IDT_INT_GATE_FLAGS", isr |-> "stale", ist |-> 1]

Stale(t, vec) ==
    idt_set_desc(t, vec, StaleGate.type, StaleGate.isr, StaleGate.ist)

PriorIdts ==
    {EmptyIdt,
     Stale(EmptyIdt, 1),
     Stale(EmptyIdt, 7),
     Stale(EmptyIdt, 32),
     Stale(EmptyIdt, 3),
     Stale(Stale(EmptyIdt, 128), 1)}

InitPre ==
    /\ is_bsp = TRUE
    /\ bpc = [c \in Cores |-> "L137"]
    /\ boot_calls = <<>>
    /\ idtr = [c \in Cores |-> FALSE]
    /\ gdtr = [c \in Cores |-> FALSE]

InitPreIdle ==
    /\ InitPre
    /\ idt = EmptyIdt

NoRoundTrip == [phase |-> "none", A |-> NULL, B |-> NULL, Bout |-> ResetImage,
                R |-> ResetImage]

InitPcb ==
    /\ fpu_state = [p \in Procs |-> NULL]
    /\ mem = [f \in Frames |-> ResetImage]
    /\ free_frames = 1..NumFrames
    /\ fpu = ResetImage
    /\ curproc = NULL
    /\ last = Call("boot", NULL, 0, 0)
    /\ nops = 0
    /\ rt = NoRoundTrip

\* Concurrent bring-up: every core enters with the boot-time control
\* registers (CR0 = PE|EM|ET, CR4 = PAE); the feature bits differ per core.
Init ==
    /\ InitOrch
    /\ edx \in [Cores -> EdxVals]
    /\ cr0 = [c \in Cores |-> 21]
    /\ cr4 = [c \in Cores |-> 32]
    /\ try_spectre_mitigate \in BOOLEAN
    /\ InitPreIdle
    /\ InitPcb

\* Any core executes its next statement of processor_init, or, outside it,
\* calls one of the interrupt-flag functions.
Next ==
    \E c \in Cores :
        \/ processor_init(c)
        \/ intr_mask(c)
        \/ intr_unmask(c)
        \/ processor_halt(c)

Spec == Init /\ [][Next]_vars

\* Serialised bring-up: a core enters processor_init only when no other core
\* is inside it.  The feature bits differ per core; the control registers on
\* entry are arbitrary, the same on every core.
InitSeq ==
    /\ InitOrch
    /\ edx \in [Cores -> EdxVals]
    /\ \E v \in Cr0Vals : cr0 = [c \in Cores |-> v]
    /\ \E v \in Cr4Vals : cr4 = [c \in Cores |-> v]
    /\ try_spectre_mitigate \in BOOLEAN
    /\ InitPreIdle
    /\ InitPcb

Idle(c) == pc[c] \in {"L220", "done", "halted"}

NextSeq ==
    \E c \in Cores :
        /\ \A d \in Cores \ {c} : Idle(d)
        /\ processor_init(c)

SpecSeq == InitSeq /\ [][NextSeq]_vars

\* pre_init, one call per core, each call completing before the next starts.
InitPreSeq ==
    /\ InitPre
    /\ idt \in PriorIdts
    /\ InitOrchIdle
    /\ InitPcb

NextPre ==
    \E c \in Cores :
        /\ \A d \in Cores \ {c} : bpc[d] \in {"L137", "done"}
        /\ pre_init(c)

SpecPre == InitPreSeq /\ [][NextPre]_vars

\* The context operations in any order.
InitPcbSpec ==
    /\ InitPcb
    /\ InitOrchIdle
    /\ InitPreIdle

NextPcb ==
    \/ \E p \in Procs : allocate(p)
    \/ \E p \in Procs : release(p)
    \/ \E old \in {curproc, NULL}, new \in Procs : switch_context(old, new)
    \/ \E img \in UserImages : RunFpu(img)

SpecPcb == InitPcbSpec /\ [][NextPcb]_vars

\* The round trip, from any state with two processes A and B that each have
\* a save area of their own, A running.
InitRT ==
    /\ \E a \in Procs, b \in Procs, fa \in 1..NumFrames, fb \in 1..NumFrames :
         /\ a # b
         /\ fa # fb
         /\ fpu_state = [p \in Procs |->
                           IF p = a THEN PHYS_TO_VIRT(fa)
                           ELSE IF p = b THEN PHYS_TO_VIRT(fb) ELSE NULL]
         /\ free_frames = (1..NumFrames) \ {fa, fb}
         /\ \E ia \in UserImages, ib \in UserImages :
              mem = [f \in Frames |->
                       IF f = fa THEN ia ELSE IF f = fb THEN ib ELSE ResetImage]
         /\ curproc = a
         /\ fpu \in UserImages
         /\ rt = [phase |-> "A_runs", A |-> a, B |-> b, Bout |-> ResetImage,
                  R |-> fpu]
         /\ last = Call("insn", a, 0, 0)
    /\ nops = 0
    /\ InitOrchIdle
    /\ InitPreIdle

NextRT ==
    \/ RT_SwitchOut
    \/ \E img \in UserImages : RT_BRuns(img)
    \/ RT_SwitchBack

SpecRT == InitRT /\ [][NextRT]_vars


\* Concurrent bring-up alone: the cores execute processor_init and nothing
\* else, and every core that has a statement to execute eventually executes
\* it (cores run independently; none is suspended).
NextInit == \E c \in Cores : processor_init(c)

SpecLive ==
    Init /\ [][NextInit]_vars /\ \A c \in Cores : WF_vars(processor_init(c))

\* pre_init called by the cores with their executions overlapping: any core
\* executes its next statement.
NextPreOverlap == \E c \in Cores : pre_init(c)

SpecPreOverlap == InitPreSeq /\ [][NextPreOverlap]_vars
(***************************************************************************)
(* Claims about processor_init.                                            *)
(***************************************************************************)
\* Core c has made the call or register write named e.
Has(c, e) == \E i \in DOMAIN trace[c] : trace[c][i] = e

\* Core c made the call or register write named e in this step.
Did(c, e) ==
    /\ Len(trace'[c]) = Len(trace[c]) + 1
    /\ trace'[c][Len(trace'[c])] = e

PastDiscovery == {"L262", "L263", "L265", "L268", "L271", "done"}

\* C1: with any number of cores inside processor_init, acpi_parse_madt is
\* called exactly once and ioapic_init is called exactly once in total:
\* never more than once, and once as soon as any core is past the discovery
\* step.
C1_DiscoveryExactlyOnce ==
    /\ madt_calls <= 1
    /\ ioapic_calls <= 1
    /\ \A c \in Cores :
         pc[c] \in PastDiscovery => madt_calls = 1 /\ ioapic_calls = 1

\* C2: no core starts lapic_init before acpi_parse_madt and ioapic_init
\* have both returned on the core that runs them.
C2_LapicAfterDiscovery ==
    \A c \in Cores : lapic_up[c] => madt_done >= 1 /\ ioapic_done >= 1

\* Both required feature bits, CPUID.1:EDX bit 25 and bit 26, are set.
BothBits(c) == TEST(edx[c], 2^25) /\ TEST(edx[c], 2^26)

BeforeEnable == {"L220", "L225", "L227", "L239", "halted"}

AfterEnable == {"L242", "L243", "L249", "L254", "L254s", "L255", "L255r",
                "L257", "L258", "L258s", "L259", "L259r", "L262", "L263",
                "L265", "L268", "L271", "done"}

\* Word w is word v with bits `set` set, bits `clear` cleared and every other
\* bit (of the low 12) as in v.
SameBut(w, v, set, clear) ==
    /\ w < 2^12
    /\ \A n \in 0..11 :
         TEST(w, 2^n) = (IF n \in set THEN TRUE
                         ELSE IF n \in clear THEN FALSE
                         ELSE TEST(v, 2^n))

C5_Inv ==
    \A c \in Cores :
        /\ ~BothBits(c) => pc[c] \in BeforeEnable
        /\ Has(c, "panic") =>
             ~BothBits(c) /\ ~Has(c, "cr0") /\ ~Has(c, "cr4")
        /\ pc[c] = "L227" => ~Has(c, "cr0") /\ ~Has(c, "cr4")
        /\ pc[c] \in AfterEnable =>
             /\ BothBits(c)
             /\ TEST(cr0[c], 2^1) /\ ~TEST(cr0[c], 2^2)
             /\ TEST(cr4[c], 2^9) /\ TEST(cr4[c], 2^10)

C5_Step ==
    \A c \in Cores :
        /\ (pc[c] = "L227" /\ pc'[c] # "L227") =>
             pc'[c] = (IF BothBits(c) THEN "L229" ELSE "L239")
        /\ Did(c, "panic") => pc[c] = "L239" /\ pc'[c] = "halted"
        /\ IF Did(c, "cr0")
           THEN SameBut(cr0'[c], cr0[c], {1}, {2})
           ELSE cr0'[c] = cr0[c]
        /\ IF Did(c, "cr4")
           THEN SameBut(cr4'[c], cr4[c], {9, 10}, {})
           ELSE cr4'[c] = cr4[c]

\* C5: for every combination of CPUID.1:EDX bits 25 and 26 the Feature
\* Enabler enables floating point iff both are set and panics otherwise;
\* the write to CR0 leaves the previous CR0 with bit 1 set and bit 2 clear,
\* the write to CR4 leaves the previous CR4 with bits 9 and 10 set, all
\* other bits unchanged; a core that panics has written neither register.
C5_FeatureEnabler == []C5_Inv /\ [][C5_Step]_vars

NoneOf(c, events) == \A i \in DOMAIN trace[c] : trace[c][i] \notin events

\* C6 as claimed: a core that panicked for a missing feature bit has not
\* published the descriptor in GS base, has no TSS installed, and has run
\* none of discovery, lapic_init, sti.
C6_NothingExposed ==
    \A c \in Cores :
        Has(c, "panic") =>
            /\ pc[c] = "halted"
            /\ gs_base[c] = NULL
            /\ ~tss_loaded[c]
            /\ NoneOf(c, {"tss", "madt", "ioapic", "lapic", "sti"})
            /\ ~lapic_up[c]

\* C6 amended: a core with a required feature bit absent never gets past
\* the feature check, and once it has panicked it is halted with GS base
\* holding the address of its zeroed, unlocked descriptor, no TSS installed,
\* and none of discovery, lapic_init, sti run on it.
C6_HaltBeforeTss ==
    \A c \in Cores :
        /\ ~BothBits(c) => pc[c] \in BeforeEnable
        /\ Has(c, "panic") =>
             /\ pc[c] = "halted"
             /\ ~BothBits(c)
             /\ cur_cpu[c] # NULL
             /\ gs_base[c] = cur_cpu[c]
             /\ cpu_lock[cur_cpu[c]] = NULL
             /\ cpu_lapic_base[cur_cpu[c]] = 0
             /\ ~tss_loaded[c]
             /\ NoneOf(c, {"lock", "tss", "madt", "ioapic", "lapic_base",
                           "lapic", "spectre", "sti"})
             /\ ~lapic_up[c]

\* C6 witness: a core panicked and is halted while another core, with both
\* bits, has completed processor_init.
C6_Witness ==
    \E c \in Cores, d \in Cores :
        /\ Has(c, "panic") /\ pc[c] = "halted"
        /\ gs_base[c] # NULL
        /\ pc[d] = "done"

\* The state of core c in the orchestrator's state machine: 0 before the
\* descriptor exists, 1 descriptor-allocated, 2 features-enabled,
\* 3 tss-installed, 4 platform-discovered (the core is past the discovery
\* step and has recorded the base), 5 local-controller-up,
\* 6 interrupts-enabled (processor_init has executed its sti).
Stage(c) ==
    IF Has(c, "sti") THEN 6
    ELSE IF lapic_up[c] THEN 5
    ELSE IF Has(c, "lapic_base") THEN 4
    ELSE IF tss_loaded[c] THEN 3
    ELSE IF Has(c, "cr4") THEN 2
    ELSE IF cur_cpu[c] # NULL THEN 1
    ELSE 0

C8_Inv ==
    \A c \in Cores :
        /\ Has(c, "sti") => lapic_up[c]
        /\ lapic_up[c] => Has(c, "lapic_base") /\ tss_loaded[c]
        /\ ~tss_loaded[c] => ~Has(c, "lapic_base")
        /\ tss_loaded[c] => Has(c, "cr4")
        /\ cur_cpu[c] = NULL => ~Has(c, "cr4")
        /\ pc[c] = "done" => Has(c, "sti")
        /\ Has(c, "sti") =>
             /\ pc[c] \in {"done", "halted"}
             /\ trace[c][Len(trace[c])] = "sti"

\* Core c executes a statement of processor_init in this step (a halt
\* inside processor_init comes with a diagnostic, processor_halt does not).
InitStep(c) ==
    /\ pc'[c] # pc[c]
    /\ ~(pc'[c] = "halted" /\ trace'[c] = trace[c])

\* Nothing Stage(c) depends on changes in this step.
SameStage(c) ==
    /\ lapic_up'[c] = lapic_up[c]
    /\ tss_loaded'[c] = tss_loaded[c]
    /\ cur_cpu'[c] = cur_cpu[c]
    /\ trace'[c] = trace[c]

C8_Step ==
    \A c \in Cores :
        /\ InitStep(c) =>
             /\ ~Has(c, "sti")
             /\ intr_on'[c] = (intr_on[c] \/ Did(c, "sti"))
        /\ \/ SameStage(c)
           \/ /\ Stage(c)' = Stage(c) \/ Stage(c)' = Stage(c) + 1
              /\ Did(c, "lapic") => tss_loaded[c] /\ Stage(c) = 4
              /\ Did(c, "spectre") => lapic_up[c] /\ ~Has(c, "sti")
              /\ Did(c, "sti") =>
                   /\ lapic_up[c]
                   /\ try_spectre_mitigate => Has(c, "spectre")
                   /\ Stage(c) = 5 /\ Stage(c)' = 6
                   /\ pc'[c] = "done" /\ intr_on'[c]

\* C8: on each core processor_init passes through descriptor-allocated,
\* features-enabled, tss-installed, platform-discovered,
\* local-controller-up, interrupts-enabled in that order, one state at a
\* time and never backwards; sti is the last step, after lapic_init and the
\* mitigation hook; lapic_init runs after the TSS is installed.
C8_StrictlyForward == []C8_Inv /\ [][C8_Step]_vars

\* C8 witness: with the hook registered, one core has interrupts enabled
\* while another is between tss-installed and platform-discovered.
C8_Witness ==
    \E c \in Cores, d \in Cores :
        /\ Stage(c) = 6 /\ Has(c, "spectre")
        /\ Stage(d) = 3

\* The function pre_init calls at position i of the boot, counted over all
\* calls to pre_init.
ExpectedFn(i) ==
    IF i = 1 THEN "uart8250_try_init"
    ELSE IF i = 2 THEN "vm_physseg_init"
    ELSE IF i = 3 THEN "vm_init"
    ELSE IF i % 2 = 0 THEN "interrupts_init"
    ELSE "gdt_load"

CallsOf(fn) == {i \in DOMAIN boot_calls : boot_calls[i][2] = fn}

Returned == {c \in Cores : bpc[c] = "done"}

\* C7: with the calls to pre_init serialised, only the first call runs
\* uart8250_try_init, vm_physseg_init, vm_init, in that order; every call
\* then runs interrupts_init and afterwards gdt_load for the calling core;
\* after k calls each once-per-boot step has run exactly once and
\* interrupts_init and gdt_load exactly k times each.
C7_PreInitOrder ==
    /\ \A i \in DOMAIN boot_calls :
         /\ boot_calls[i][2] = ExpectedFn(i)
         /\ i <= 4 => boot_calls[i][1] = boot_calls[1][1]
         /\ (i > 3 /\ i % 2 = 1) => boot_calls[i][1] = boot_calls[i - 1][1]
    /\ \A c \in Cores :
         /\ idtr[c] <=>
              /\ \E i \in CallsOf("interrupts_init") : boot_calls[i][1] = c
              /\ bpc[c] \in {"L145", "done"}
         /\ gdtr[c] <=> \E i \in CallsOf("gdt_load") : boot_calls[i][1] = c
         /\ gdtr[c] => idtr[c]
         /\ bpc[c] = "done" <=> gdtr[c]
    /\ (\A c \in Cores : bpc[c] \in {"L137", "done"}) =>
         LET k == Cardinality(Returned) IN
         /\ Len(boot_calls) = (IF k = 0 THEN 0 ELSE 3 + 2 * k)
         /\ k >= 1 =>
              /\ Cardinality(CallsOf("uart8250_try_init")) = 1
              /\ Cardinality(CallsOf("vm_physseg_init")) = 1
              /\ Cardinality(CallsOf("vm_init")) = 1
              /\ ~is_bsp
         /\ Cardinality(CallsOf("interrupts_init")) = k
         /\ Cardinality(CallsOf("gdt_load")) = k
         /\ \A c \in Returned :
              /\ Cardinality({i \in CallsOf("interrupts_init") :
                                 boot_calls[i][1] = c}) = 1
              /\ Cardinality({i \in CallsOf("gdt_load") :
                                 boot_calls[i][1] = c}) = 1

\* C7 witness: every core has called pre_init and returned; there are at
\* least two of them.
C7_Witness ==
    /\ \A c \in Cores : bpc[c] = "done"
    /\ Cardinality(Returned) >= 2
    /\ Len(boot_calls) = 3 + 2 * Cardinality(Returned)

\* The processes whose save area holds an image equal to the live registers.
Matching ==
    {p \in Procs :
        fpu_state[p] # NULL /\ mem[VIRT_TO_PHYS(fpu_state[p])] = fpu}

\* C3 as claimed: whenever a process is running on the core, exactly one
\* save area matches the live registers, and it is the running process's.
C3_ExactlyOneMatches == curproc # NULL => Matching = {curproc}

C3_AfterSwitch ==
    last.op = "switch_to" =>
        /\ curproc = last.proc
        /\ curproc \in Matching

C3_ReleaseKeeps ==
    (last'.op = "free_pcb" /\ nops' = nops + 1) =>
        /\ curproc' = curproc
        /\ fpu' = fpu
        /\ mem' = mem
        /\ (curproc \in Matching => curproc' \in Matching')

\* C3 amended: when switch_context returns, the process it switched to is
\* the running process and its save area matches the live registers (other
\* save areas may hold the same image); release changes neither the
\* registers nor any save area, so it keeps that match.
C3_RunningMatches == []C3_AfterSwitch /\ [][C3_ReleaseKeeps]_vars

\* C3 witness: a switch from a process that had changed the registers has
\* returned; the outgoing and the incoming process both have a save area,
\* and two save areas match the registers.
C3_Witness ==
    /\ last.op = "switch_to"
    /\ last.arg # NULL
    /\ last.arg # curproc
    /\ mem[VIRT_TO_PHYS(fpu_state[last.arg])].data # 0
    /\ Cardinality(Matching) >= 2

\* C4: switch_context(A, B), register changes while B runs, then
\* switch_context(B, A): the live registers equal R, the image held while A
\* ran, and B's save area holds the image B had when it was switched out.
C4_RoundTrip ==
    rt.phase = "back" =>
        /\ curproc = rt.A
        /\ fpu = rt.R
        /\ mem[VIRT_TO_PHYS(fpu_state[rt.B])] = rt.Bout
        /\ mem[VIRT_TO_PHYS(fpu_state[rt.A])] = rt.R

\* C4 witness: the round trip is complete, and B left with an image that
\* differs from R and from what its save area held at first.
C4_Witness ==
    /\ rt.phase = "back"
    /\ rt.Bout # rt.R
    /\ rt.Bout.data # rt.R.data
    /\ rt.Bout.mxcsr # rt.R.mxcsr

\* C9: when vm_alloc_pageframe returns 0, processor_init_pcb returns -1,
\* the process has no save area afterwards, and neither the live registers
\* nor any memory has been written.
C9_AllocFailure ==
    [][\A p \in Procs :
         (/\ nops' = nops + 1
          /\ last'.op = "init_pcb"
          /\ last'.proc = p
          /\ last'.arg = 0) =>
            /\ last'.ret = -1
            /\ fpu_state'[p] = NULL
            /\ fpu' = fpu
            /\ mem' = mem]_vars

\* The save areas that are pages vm_alloc_pageframe handed out.
PageAreas == {PHYS_TO_VIRT(f) : f \in 1..NumFrames}

\* C10: processor_free_pcb on a process that holds no page from the
\* allocator returns -1 and leaves the allocator's free set unchanged; on a
\* process that holds one it returns 0 and returns exactly that page.
C10_ReleaseContract ==
    [][\A p \in Procs :
         (/\ nops' = nops + 1
          /\ last'.op = "free_pcb"
          /\ last'.proc = p) =>
            IF fpu_state[p] \in PageAreas
            THEN /\ last'.ret = 0
                 /\ free_frames' =
                      free_frames \cup {VIRT_TO_PHYS(fpu_state[p])}
            ELSE /\ last'.ret = -1
                 /\ free_frames' = free_frames]_vars

\* The vectors interrupts_init writes.
SetVectors == {0, 2, 3, 4, 5, 6, 8, 10, 11, 12, 13, 14, 128}

\* Tables t and u hold the same gate at every one of the 256 vectors.
SameTable(t, u) == \A v \in Vectors : Gate(t, v) = Gate(u, v)

\* Core c executes a statement of interrupts_init in this step.
InstallStep(c) ==
    /\ bpc'[c] # bpc[c]
    /\ bpc[c] \in {IdtCalls[k].at : k \in DOMAIN IdtCalls} \cup {"L88"}

C11_Inv ==
    (\E c \in Cores : idtr[c]) =>
        /\ SameTable(interrupts_init_table(idt), idt)
        /\ \A v \in SetVectors :
             Gate(idt, v) \notin {NoGate, StaleGate} /\ Gate(idt, v).ist = 0
        /\ \A v \in Vectors \ SetVectors : Gate(idt, v) \in {NoGate, StaleGate}

C11_Step ==
    \A c \in Cores :
        InstallStep(c) =>
            /\ \A v \in Vectors \ SetVectors : Gate(idt', v) = Gate(idt, v)
            /\ (\E d \in Cores : idtr[d]) => SameTable(idt', idt)

\* C11: for any prior table contents, once interrupts_init has run, running
\* it again (on the same or another core) leaves every one of the 256
\* vectors as it is, so every core that installs the table loads the same
\* table.
C11_InstallIdempotent == []C11_Inv /\ [][C11_Step]_vars

\* C11 witness: two cores have installed the table, which held stale gates
\* before, one of them at a vector interrupts_init does not write.
C11_Witness ==
    /\ Cardinality({c \in Cores : idtr[c]}) >= 2
    /\ Gate(idt, 1) = StaleGate
    /\ Gate(idt, 128).isr = "syscall_isr"

\* C12: every core that has reached interrupts-enabled has recorded in its
\* CPU descriptor the local-controller base the platform parser discovered
\* (what acpi_get_lapic_base reports once acpi_parse_madt has completed).
C12_RecordedBaseIsDiscovered ==
    \A c \in Cores :
        Has(c, "sti") => cpu_lapic_base[cur_cpu[c]] = LAPIC_MMIO_BASE

\* C13: under weak fairness of each core's steps, every core that has both
\* feature bits and whose descriptor allocation succeeded eventually reaches
\* interrupts-enabled, whatever the other cores do.
C13_EveryCoreArrives ==
    \A c \in Cores :
        (cur_cpu[c] # NULL /\ BothBits(c) /\ ~Has(c, "sti"))
            ~> (Has(c, "sti") /\ intr_on[c] /\ pc[c] = "done")

\* C13 witness: two cores that entered concurrently have both arrived, one
\* of them having done the discovery, the other having skipped it.
C13_Witness ==
    \E c \in Cores, d \in Cores :
        /\ c # d
        /\ Has(c, "sti") /\ Has(d, "sti")
        /\ intr_on[c] /\ intr_on[d]
        /\ Has(c, "madt") /\ ~Has(d, "madt") /\ ~Has(d, "ioapic")
        /\ cpu_lock[cur_cpu[c]] = NULL /\ cpu_lock[cur_cpu[d]] = NULL

\* C14: the image processor_init_pcb stores in a new save area does not
\* depend on what the registers held when it was called: it is the image
\* that freshly reset registers would have given, with the control word
\* loaded from 0x33F and MXCSR 0x1F80.
C14_InitialImageIndependent ==
    [][\A p \in Procs :
         (/\ nops' = nops + 1
          /\ last'.op = "init_pcb"
          /\ last'.proc = p
          /\ last'.arg # 0) =>
            /\ mem'[last'.arg].fcw = x87_fcw(FPU_FCW)
            /\ mem'[last'.arg].mxcsr = SSE_MXCSR
            /\ mem'[last'.arg] = LoadControl(ResetImage)]_vars

\* The image in the save area of process p; p must have one.
Area(p) == mem[VIRT_TO_PHYS(fpu_state[p])]

\* This step is a call of processor_switch_to(old, new).
SwitchStep(old, new) ==
    /\ nops' = nops + 1
    /\ last'.op = "switch_to"
    /\ last'.arg = old
    /\ last'.proc = new

C15_Switch ==
    \A old \in Procs \cup {NULL}, new \in Procs :
        (SwitchStep(old, new) /\ old # new) =>
            /\ old = NULL => mem' = mem
            /\ \A p \in Procs \ {old} :
                 fpu_state[p] # NULL => Area(p)' = Area(p)
            /\ fpu' = Area(new)'
            /\ fpu' = Area(new)

C15_OnlyOwnWrites ==
    \A p \in Procs :
        (/\ fpu_state[p] # NULL
         /\ fpu_state'[p] = fpu_state[p]
         /\ Area(p)' # Area(p)) =>
            \/ last'.op = "init_pcb" /\ last'.proc = p
            \/ last'.op = "switch_to" /\ last'.arg = p

\* C15: processor_switch_to(old, new), old and new distinct, writes only
\* old's save area (none when old is NULL); the save area of new and of
\* every third process is unchanged and the registers afterwards equal new's
\* save area.  Over any sequence of operations the save area of a process
\* changes only in its own processor_init_pcb and in a processor_switch_to
\* where it is old.
C15_SwitchWritesOnlyOutgoing == [][C15_Switch /\ C15_OnlyOwnWrites]_vars

\* Core c holds the lock of its own CPU descriptor.
HoldsOwnLock(c) == cur_cpu[c] # NULL /\ cpu_lock[cur_cpu[c]] = c

\* What processor_init does under the descriptor lock.
LockedEvents == {"tss", "madt", "ioapic", "lapic_base"}

C16_Inv ==
    \A c \in Cores :
        /\ Has(c, "sti") => cur_cpu[c] # NULL /\ cpu_lock[cur_cpu[c]] = NULL
        /\ lapic_up[c] => ~HoldsOwnLock(c)
        /\ tss_loaded[c] /\ ~lapic_up[c] /\ pc[c] # "L265" => HoldsOwnLock(c)
        /\ pc[c] = "done" => Has(c, "lock") /\ Has(c, "unlock")
        /\ ~BothBits(c) => ~HoldsOwnLock(c)

C16_Step ==
    \A c \in Cores :
        \/ trace'[c] = trace[c] /\ HoldsOwnLock(c)' = HoldsOwnLock(c)
        \/ /\ trace'[c] # trace[c]
           /\ Did(c, "lock") =>
                /\ ~Has(c, "lock")
                /\ Has(c, "cr0") /\ Has(c, "cr4") /\ BothBits(c)
                /\ ~HoldsOwnLock(c) /\ HoldsOwnLock(c)'
           /\ Did(c, "unlock") =>
                /\ Has(c, "lock") /\ ~Has(c, "unlock")
                /\ Has(c, "tss") /\ Has(c, "lapic_base")
                /\ HoldsOwnLock(c) /\ ~HoldsOwnLock(c)'
           /\ (\E e \in LockedEvents : Did(c, e)) =>
                HoldsOwnLock(c) /\ HoldsOwnLock(c)'
           /\ Did(c, "lapic") => Has(c, "unlock") /\ ~HoldsOwnLock(c)
           /\ ~(Did(c, "lock") \/ Did(c, "unlock")) =>
                HoldsOwnLock(c)' = HoldsOwnLock(c)

\* C16: in processor_init the TSS install, the discovery calls and the
\* write of lapic_base happen while the core holds its own descriptor's
\* lock; the lock is taken after CR0 and CR4 have been written, released
\* before lapic_init starts, taken once and released once per call, and is
\* free whenever the core is in the interrupts-enabled state.
C16_LockDiscipline == []C16_Inv /\ [][C16_Step]_vars

\* C16 witness: one core has finished with its lock released while another
\* holds its own lock inside acpi_parse_madt.
C16_Witness ==
    \E c \in Cores, d \in Cores :
        /\ Has(c, "sti") /\ Has(c, "unlock") /\ cpu_lock[cur_cpu[c]] = NULL
        /\ HoldsOwnLock(d) /\ pc[d] = "L255r"

OnceSteps == {"uart8250_try_init", "vm_physseg_init", "vm_init"}

C17_Inv ==
    /\ \A fn \in OnceSteps : Cardinality(CallsOf(fn)) <= 1
    /\ \A i \in DOMAIN boot_calls :
         boot_calls[i][2] \in {"interrupts_init", "gdt_load"} =>
             \E j \in 1..(i - 1) : boot_calls[j][2] = "vm_init"

C17_FlagStep == is_bsp' # is_bsp => is_bsp /\ ~is_bsp'

\* C17: the once-per-boot flag of pre_init changes value once and is never
\* set again, and for any interleaving of overlapping pre_init calls each
\* of uart8250_try_init, vm_physseg_init, vm_init runs at most once and no
\* core reaches interrupts_init or gdt_load before vm_init has run.
C17_OncePerBootOverlap == []C17_Inv /\ [][C17_FlagStep]_vars

\* C18: in every execution, with any number of cores and any interleaving of
\* processor_init, ioapic_init never starts before acpi_parse_madt has
\* completed, also when another core runs the parse.
C18_IoapicAfterMadt == ioapic_calls >= 1 => madt_done >= 1

C19_Step ==
    \A c \in Cores :
        /\ Did(c, "cr0") =>
             cr0'[c] = BitOr(BitAndNot(cr0[c], BIT(2)), BIT(1))
        /\ Did(c, "cr4") => cr4'[c] = BitOr(cr4[c], 3 * 2^9)

\* C19: when several cores run the Feature Enabler concurrently, the value
\* a core writes to its CR0 (to its CR4) is the one computed from the value
\* that same core read from its own CR0 (CR4); no value read by another
\* core, and no value of the other register, gets written through reg_tmp.
C19_OwnRegisterOnly == [][C19_Step]_vars

ReleaseStep == nops' # nops /\ last'.op = "free_pcb"

\* No page is lost: a page frame the allocator handed out is still the save
\* area of some process.
C20_Inv ==
    \A f \in 1..NumFrames :
        f \in free_frames \/ \E p \in Procs : fpu_state[p] = PHYS_TO_VIRT(f)

\* A release that succeeds returns a page the allocator does not hold; a
\* release of an already released area fails and frees nothing.
C20_Step ==
    ReleaseStep =>
        IF fpu_state[last'.proc] = NULL
           \/ VIRT_TO_PHYS(fpu_state[last'.proc]) \in free_frames
        THEN last'.ret = -1 /\ free_frames' = free_frames
        ELSE last'.ret = 0

\* C20: over any sequence of allocate and release calls every save-area page
\* is returned to the allocator at most once and is not lost: a second
\* release without an intervening allocate returns -1 and frees nothing, a
\* second allocate without an intervening release keeps the reference to
\* the still-allocated page.
C20_PageAccounting == []C20_Inv /\ [][C20_Step]_vars

====
